---- MODULE Spec2Model ----
(***************************************************************************)
(* Model of src/huffman.cpp: class HFMTree (tree construction from a heap  *)
(* of weighted nodes, code table generation, sequencing of the tree to a   *)
(* byte stream and back, encode and decode of the packed bit stream).      *)
(***************************************************************************)
EXTENDS Integers, Sequences, FiniteSets, TLC

(* ---- bounds of the model ---- *)
\* size of the alphabet (the program's tables have 128 slots, huffman.cpp:244)
NSym == 3
\* longest source text a tree is built from, and longest text encoded with it
MaxLen == 6
\* longest text, unrelated to the tree's source, handed to encode
MaxMsg == 2
\* longest byte stream, not produced by sequence(), handed to build_tree(begin, end)
MaxStream == 4

(* ---- program constants ---- *)
\* <cstdio> EOF, the value of non-leaf nodes
EOF == -1
\* 0b10000000, opens a node in the sequenced tree
OPEN == 128
\* 0b10000001, closes a node in the sequenced tree
CLOSE == 129
\* sizeof(std::size_t), the width of the length header of encode's result
SizeT == 8

Symbols == 0 .. (NSym - 1)

\* all sequences over S of length at most n
RECURSIVE SeqsUpTo(_, _)
SeqsUpTo(S, n) ==
    IF n = 0 THEN {<<>>}
    ELSE LET shorter == SeqsUpTo(S, n - 1)
         IN  shorter \cup {Append(s, x) : s \in {t \in shorter : Len(t) = n - 1}, x \in S}

(* ---- char <-> uint8_t conversions (char is signed) ---- *)
\* uint8_t(c) for a char c
ToU8(c) == (c + 256) % 256
\* char(b) for a byte b
ToChar(b) == IF b >= 128 THEN b - 256 ELSE b

(* ---- class Node, class Weighted_Node ---- *)
nullptr == [null |-> TRUE]
IsNull(t) == "null" \in DOMAIN t
\* Node(Tree l, Tree r, const char &v)
Node(l, r, v) == [left |-> l, right |-> r, value |-> v]
\* Node(Node &&other): takes the node part of a (weighted) node
MoveNode(n) == Node(n.left, n.right, n.value)
\* Weighted_Node(): Node(), weight(0), with value set to char(i) afterwards
WeightedLeaf(v, w) == [left |-> nullptr, right |-> nullptr, value |-> v, weight |-> w]
\* Weighted_Node(Tree l, Tree r, const std::size_t w) : Node(l, r), weight(w)
Weighted_Node(l, r, w) == [left |-> l, right |-> r, value |-> EOF, weight |-> w]

VARIABLES
    pc,         \* position of the caller: which call of HFMTree runs or has returned
    counter,    \* the weight of each symbol the heap was filled with
    heap,       \* Heap &heap of build_tree(Heap &)
    tree,       \* HFMTree::tree
    code,       \* HFMTree::code
    error,      \* the exception that ended the call, or "undefined" for a crash
    emptyFront, \* heap.front() was evaluated on an empty heap
    msg,        \* the string handed to encode
    payload,    \* the bytes encode returned, or the bytes handed to decode
    decoded,    \* the string decode returned
    walked,     \* decode's count at its return: the bits that moved the cursor
    seq,        \* the byte range [begin, end) of a sequenced tree
    tree2,      \* the tree build_tree(begin, end) returned
    past        \* build_tree(begin, end) dereferenced an iterator at or behind end

vars == <<pc, counter, heap, tree, code, error, emptyFront,
          msg, payload, decoded, walked, seq, tree2, past>>
buildVars == <<counter, heap, tree, error, emptyFront>>
codecVars == <<msg, payload, decoded, walked>>
seqVars == <<seq, tree2, past>>

(* ---- the heap of build_tree(Heap &) ---- *)
\* The order std::make_heap, std::push_heap and std::pop_heap keep inside the
\* vector is left open: the comparator is >=, so which of several nodes of
\* equal weight comes to the front is any of them.
\* the comparison turned round: operator<=
less_equal(a, b) == a.weight <= b.weight

\* operator>=(const Weighted_Node &a, const Weighted_Node &b), which is
\* Weighted_Node::greater_equal
greater_equal(a, b) == a.weight >= b.weight

\* the places of the nodes that can be at the front of a heap kept with
\* greater_equal: those that come before no node other than their equals
Fronts(h) ==
    {j \in 1 .. Len(h) :
        \A k \in 1 .. Len(h) : greater_equal(h[j], h[k]) => greater_equal(h[k], h[j])}

\* heap.front().weight
MinWeight(h) == CHOOSE w \in {h[j].weight : j \in Fronts(h)} : TRUE

\* h without its i-th element
RemoveAt(h, i) == SubSeq(h, 1, i - 1) \o SubSeq(h, i + 1, Len(h))

\* std::pop_heap with the comparison turned round: a node of largest weight
\* moves to the back
pop_heap_LessEqual(h) ==
    {Append(RemoveAt(h, i), h[i]) :
        i \in {j \in 1 .. Len(h) : \A k \in 1 .. Len(h) : h[k].weight <= h[j].weight}}

\* std::pop_heap(begin, end, greater_equal): a node of least weight moves to
\* the back; every possible result
pop_heap(h) == {Append(RemoveAt(h, i), h[i]) : i \in Fronts(h)}

\* heap.pop_back()
pop_back(h) == SubSeq(h, 1, Len(h) - 1)

\* the for loop of build_tree(const std::string &): heap[i].weight++
CountOf(s) == [c \in Symbols |-> Cardinality({i \in 1 .. Len(s) : s[i] = c})]

\* Heap heap(128) with heap[i].value = char(i) and the given weights
FillHeap(w) == [i \in 1 .. NSym |-> WeightedLeaf(i - 1, w[i - 1])]

Texts == SeqsUpTo(Symbols, MaxLen)
RECURSIVE SumTo(_, _)
SumTo(w, c) == IF c < 0 THEN 0 ELSE w[c] + SumTo(w, c - 1)
Counters == {w \in [Symbols -> 0 .. MaxLen] : SumTo(w, NSym - 1) <= MaxLen}

Init ==
    /\ pc = "idle"
    /\ counter = [c \in Symbols |-> 0]
    /\ heap = <<>>
    /\ tree = nullptr
    /\ code = [c \in Symbols |-> <<>>]
    /\ error = "none"
    /\ emptyFront = FALSE
    /\ msg = <<>>
    /\ payload = <<>>
    /\ decoded = <<>>
    /\ walked = 0
    /\ seq = <<>>
    /\ tree2 = nullptr
    /\ past = FALSE

\* build_tree(const std::string &s) up to and including std::make_heap
BuildFromString ==
    /\ pc = "idle"
    /\ \E s \in Texts :
        /\ counter' = CountOf(s)
        /\ heap' = FillHeap(CountOf(s))
    /\ pc' = "discard"
    /\ UNCHANGED <<tree, code, error, emptyFront, codecVars, seqVars>>

\* build_tree(const Counter &counter) up to and including std::make_heap
BuildFromCounter ==
    /\ pc = "idle"
    /\ \E w \in Counters :
        /\ counter' = w
        /\ heap' = FillHeap(w)
    /\ pc' = "discard"
    /\ UNCHANGED <<tree, code, error, emptyFront, codecVars, seqVars>>

\* while (!heap.front().weight) { pop_heap; pop_back; }  one iteration
DiscardZero ==
    /\ pc = "discard"
    /\ heap # <<>>
    /\ MinWeight(heap) = 0
    /\ \E h \in pop_heap(heap) : heap' = pop_back(h)
    /\ UNCHANGED <<pc, counter, tree, code, error, emptyFront, codecVars, seqVars>>

\* the loop condition is false: the front has a weight
DiscardDone ==
    /\ pc = "discard"
    /\ heap # <<>>
    /\ MinWeight(heap) # 0
    /\ pc' = "check"
    /\ UNCHANGED <<counter, heap, tree, code, error, emptyFront, codecVars, seqVars>>

\* the loop condition is evaluated on an empty heap: front() of an empty
\* vector is undefined. Either the word read is not zero and the loop ends,
\* or it is zero and pop_back() runs on the empty vector.
DiscardOnEmpty ==
    /\ pc = "discard"
    /\ heap = <<>>
    /\ emptyFront' = TRUE
    /\ \/ /\ pc' = "check"
          /\ error' = error
       \/ /\ pc' = "failed"
          /\ error' = "undefined"
    /\ UNCHANGED <<counter, heap, tree, code, codecVars, seqVars>>

\* if (heap.size() == 0) throw ...; if (heap.size() == 1) throw ...;
CheckSize ==
    /\ pc = "check"
    /\ IF Len(heap) = 0
       THEN pc' = "failed" /\ error' = "empty_text"
       ELSE IF Len(heap) = 1
            THEN pc' = "failed" /\ error' = "single_char"
            ELSE pc' = "merge" /\ error' = error
    /\ UNCHANGED <<counter, heap, tree, code, emptyFront, codecVars, seqVars>>

\* the merge with the left node moved into both children
MergeOf_LeftTwice(h3, left, right) ==
    [h3 EXCEPT ![Len(h3)] =
        Weighted_Node(MoveNode(left), MoveNode(left), left.weight + right.weight)]

\* the body of while (heap.size() > 1), applied to heap h with the two pops
\* resolved to h1 and h3
MergeOf(h3, left, right) ==
    [h3 EXCEPT ![Len(h3)] =
        Weighted_Node(MoveNode(left), MoveNode(right), left.weight + right.weight)]

Merge ==
    /\ pc = "merge"
    /\ Len(heap) > 1
    /\ \E h1 \in pop_heap(heap) :
         \E h3 \in pop_heap(pop_back(h1)) :
            heap' = MergeOf(h3, h1[Len(h1)], h3[Len(h3)])
    /\ UNCHANGED <<pc, counter, tree, code, error, emptyFront, codecVars, seqVars>>

\* return new Node(std::move(heap[0]));
BuildReturn ==
    /\ pc = "merge"
    /\ Len(heap) <= 1
    /\ tree' = MoveNode(heap[1])
    /\ pc' = "built"
    /\ UNCHANGED <<counter, heap, code, error, emptyFront, codecVars, seqVars>>

(* ---- sequence(): the tree as bytes ---- *)
RECURSIVE _sequence(_)
_sequence(t) ==
    <<OPEN>>
    \o (IF ~IsNull(t.left)
        THEN _sequence(t.left) \o <<ToU8(t.value)>> \o _sequence(t.right)
        ELSE <<ToU8(t.value)>>)
    \o <<CLOSE>>

sequence(t) == _sequence(t)

(* ---- build_tree(begin, end): bytes back to a tree ---- *)
\* The byte range is the first n bytes of mem; what mem holds behind them is
\* whatever lies behind the buffer. Iterators are offsets from the start of
\* mem, and dereferencing one behind the last byte of mem is a crash.
Deref(mem, p) == mem[p + 1]

\* the scan without count++ for an OPEN
RECURSIVE ScanNesting_NoOpen(_, _, _)
ScanNesting_NoOpen(mem, p, count) ==
    IF count = 0 THEN p
    ELSE IF p >= Len(mem) THEN -1
    ELSE ScanNesting_NoOpen(mem, p + 1,
            IF Deref(mem, p) = CLOSE THEN count - 1 ELSE count)

\* while (count) { ... p++; } with uint8_t count: the offset the scan stops
\* at, or -1 when it runs off mem
RECURSIVE ScanNesting(_, _, _)
ScanNesting(mem, p, count) ==
    IF count = 0 THEN p
    ELSE IF p >= Len(mem) THEN -1
    ELSE ScanNesting(mem, p + 1,
            IF Deref(mem, p) = OPEN THEN (count + 1) % 256
            ELSE IF Deref(mem, p) = CLOSE THEN count - 1
            ELSE count)

Crashed(mem) == [tree |-> nullptr, crash |-> TRUE, reach |-> Len(mem)]

Max(a, b) == IF a > b THEN a ELSE b

\* the result: the tree, whether the call crashed, and the largest offset it
\* dereferenced (-1 if none)
RECURSIVE build_tree(_, _, _)
build_tree(mem, begin, end) ==
    IF begin + 1 = end THEN [tree |-> nullptr, crash |-> FALSE, reach |-> -1]
    ELSE IF begin + 1 >= Len(mem) THEN Crashed(mem)
    ELSE IF Deref(mem, begin + 1) = OPEN
    THEN LET p == ScanNesting(mem, begin + 2, 1)
         IN  IF p = -1 \/ p >= Len(mem) THEN Crashed(mem)
             ELSE LET l == build_tree(mem, begin + 1, p)
                      r == build_tree(mem, p + 1, end - 1)
                  IN  IF l.crash \/ r.crash THEN Crashed(mem)
                      ELSE [tree |-> Node(l.tree, r.tree, ToChar(Deref(mem, p))),
                            crash |-> FALSE,
                            reach |-> Max(p, Max(l.reach, r.reach))]
    ELSE [tree |-> Node(nullptr, nullptr, ToChar(Deref(mem, begin + 1))),
          crash |-> FALSE,
          reach |-> begin + 1]

(* ---- generate_code ---- *)
\* Code(const std::vector<bool> &v, const uint8_t &l): v resized to l
Code(path, l) == [i \in 1 .. l |-> path[i - 1]]

\* the walk without path[depth] = 0 before the left child
RECURSIVE _generate_code_NoClear(_, _, _, _)
_generate_code_NoClear(t, cd, path, depth) ==
    IF ~(~IsNull(t.left) \/ ~IsNull(t.right))
    THEN [code |-> [cd EXCEPT ![t.value] = Code(path, depth)], path |-> path]
    ELSE LET r == _generate_code_NoClear(t.right, cd, [path EXCEPT ![depth] = 1], depth + 1)
         IN  _generate_code_NoClear(t.left, r.code, r.path, depth + 1)

\* the code table and the path after the call
RECURSIVE _generate_code(_, _, _, _)
_generate_code(t, cd, path, depth) ==
    IF ~(~IsNull(t.left) \/ ~IsNull(t.right))
    THEN [code |-> [cd EXCEPT ![t.value] = Code(path, depth)], path |-> path]
    ELSE LET r == _generate_code(t.right, cd, [path EXCEPT ![depth] = 1], depth + 1)
         IN  _generate_code(t.left, r.code, [r.path EXCEPT ![depth] = 0], depth + 1)

generate_code(t) ==
    _generate_code(t, [c \in Symbols |-> <<>>], [i \in 0 .. (NSym - 1) |-> 0], 0).code

(* ---- encode ---- *)
\* a std::size_t written to, and read from, SizeT bytes (least byte first)
RECURSIVE WriteSizeT(_, _)
WriteSizeT(n, k) == IF k = 0 THEN <<>> ELSE <<n % 256>> \o WriteSizeT(n \div 256, k - 1)

RECURSIVE ReadSizeT(_)
ReadSizeT(b) == IF b = <<>> THEN 0 ELSE b[1] + 256 * ReadSizeT(Tail(b))

\* cache |= p, for p a single bit
OrBit(cache, p) == IF (cache \div p) % 2 = 1 THEN cache ELSE cache + p

\* the loop body without cache = 0 after a full byte
PutBit_KeepCache(st, b) ==
    LET cache == IF b = 1 THEN OrBit(st.cache, st.p) ELSE st.cache
        p == st.p \div 2
    IN  IF p = 0
        THEN [result |-> Append(st.result, cache), cache |-> cache, p |-> 128]
        ELSE [result |-> st.result, cache |-> cache, p |-> p]

\* the body of the inner for loop, for bit c[j]
PutBit(st, b) ==
    LET cache == IF b = 1 THEN OrBit(st.cache, st.p) ELSE st.cache
        p == st.p \div 2
    IN  IF p = 0
        THEN [result |-> Append(st.result, cache), cache |-> 0, p |-> 128]
        ELSE [result |-> st.result, cache |-> cache, p |-> p]

\* for (std::size_t j = 0; j < c.size(); j++)
RECURSIVE PutCode(_, _, _)
PutCode(st, c, j) == IF j > Len(c) THEN st ELSE PutCode(PutBit(st, c[j]), c, j + 1)

\* for (const auto &i : string)
RECURSIVE PutString(_, _, _, _)
PutString(st, cd, s, i) ==
    IF i > Len(s) THEN st ELSE PutString(PutCode(st, cd[s[i]], 1), cd, s, i + 1)

\* while (p >>= 1) extra++;
RECURSIVE Extra_While(_)
Extra_While(p) == IF p \div 2 # 0 THEN 1 + Extra_While(p \div 2) ELSE 0

\* do extra++; while (p >>= 1);
RECURSIVE Extra(_)
Extra(p) == 1 + (IF p \div 2 # 0 THEN Extra(p \div 2) ELSE 0)

encode(cd, s) ==
    LET st == PutString([result |-> WriteSizeT(0, SizeT), cache |-> 0, p |-> 128], cd, s, 1)
        result == IF st.p # 128 THEN Append(st.result, st.cache) ELSE st.result
        extra == IF st.p # 128 THEN Extra(st.p) ELSE 0
        l2 == ((Len(result) - SizeT) * 8) - extra
    IN  WriteSizeT(l2, SizeT) \o SubSeq(result, SizeT + 1, Len(result))

(* ---- decode ---- *)
\* the two for loops of decode(begin, end, l2) from byte i, bit mask p on:
\* the string v, the cursor t and the number of bits walked so far
RECURSIVE DecodeFrom(_, _, _, _, _, _, _, _)
DecodeFrom(root, bytes, l2, i, p, t, count, v) ==
    IF i > Len(bytes) THEN [v |-> v, t |-> t, count |-> count]
    ELSE IF p = 0 THEN DecodeFrom(root, bytes, l2, i + 1, 128, t, count, v)
    ELSE LET t1 == IF (bytes[i] \div p) % 2 = 1 THEN t.right ELSE t.left
         IN  IF t1.value # EOF
             THEN IF count + 1 = l2
                  THEN DecodeFrom(root, bytes, l2, i + 1, 128, root, count + 1,
                                  Append(v, t1.value))
                  ELSE DecodeFrom(root, bytes, l2, i, p \div 2, root, count + 1,
                                  Append(v, t1.value))
             ELSE DecodeFrom(root, bytes, l2, i, p \div 2, t1, count + 1, v)

\* decode(const std::vector<uint8_t> &code, const std::size_t &l2)
decode_l2(root, bytes, l2) == DecodeFrom(root, bytes, l2, 1, 128, root, 0, <<>>)

\* decode(const std::vector<uint8_t> &code): l2 is read from the first bytes
decode(root, cd) ==
    decode_l2(root, SubSeq(cd, SizeT + 1, Len(cd)), ReadSizeT(SubSeq(cd, 1, SizeT)))

(* ---- the calls on a constructed HFMTree ---- *)
\* HFMTree(...) : tree(build_tree(...)), code(generate_code(tree))
GenerateCode ==
    /\ pc = "built"
    /\ code' = generate_code(tree)
    /\ pc' = "ready"
    /\ UNCHANGED <<buildVars, codecVars, seqVars>>

\* the strings handed to encode: those the tree was counted from, and every
\* short string
RECURSIVE Arrangements(_)
Arrangements(w) ==
    IF \A c \in Symbols : w[c] = 0 THEN {<<>>}
    ELSE UNION {{<<c>> \o s : s \in Arrangements([w EXCEPT ![c] = w[c] - 1])} :
                    c \in {d \in Symbols : w[d] > 0}}

Msgs == Arrangements(counter) \cup SeqsUpTo(Symbols, MaxMsg)

Encode ==
    /\ pc = "ready"
    /\ \E s \in Msgs :
        /\ msg' = s
        /\ payload' = encode(code, s)
    /\ pc' = "encoded"
    /\ UNCHANGED <<buildVars, code, decoded, walked, seqVars>>

\* decode of what encode returned
Decode ==
    /\ pc = "encoded"
    /\ decoded' = decode(tree, payload).v
    /\ walked' = decode(tree, payload).count
    /\ pc' = "decoded"
    /\ UNCHANGED <<buildVars, code, msg, payload, seqVars>>

\* payloads as a file may hold them: a bit length and bytes that need not fit it
RawL2 == {1, 2, 3, 9}
RawBytes == {<<>>, <<0>>, <<165>>, <<255>>, <<165, 90>>}

DecodeRaw ==
    /\ pc = "ready"
    /\ \E l2 \in RawL2, bytes \in RawBytes :
        /\ payload' = WriteSizeT(l2, SizeT) \o bytes
        /\ decoded' = decode(tree, WriteSizeT(l2, SizeT) \o bytes).v
        /\ walked' = decode(tree, WriteSizeT(l2, SizeT) \o bytes).count
    /\ pc' = "raw_decoded"
    /\ UNCHANGED <<buildVars, code, msg, seqVars>>

\* operator<<(std::fstream &, const HFMTree &): auto s = h.sequence()
Sequence ==
    /\ pc = "ready"
    /\ seq' = sequence(tree)
    /\ pc' = "sequenced"
    /\ UNCHANGED <<buildVars, code, codecVars, tree2, past>>

\* what may lie behind the buffer
Behind == SeqsUpTo({0, CLOSE}, 2)

\* the outcome of build_tree(p, p + l1) on bytes b with g behind them
Rebuild(b, g) ==
    LET r == build_tree(b \o g, 0, Len(b))
    IN  /\ tree2' = r.tree
        /\ past' = (r.reach >= Len(b))
        /\ error' = IF r.crash THEN "undefined" ELSE error

\* get_from_fstream on the bytes sequence() produced
Deserialize ==
    /\ pc = "sequenced"
    /\ \E g \in Behind : Rebuild(seq, g)
    /\ pc' = "rebuilt"
    /\ UNCHANGED <<counter, heap, tree, emptyFront, code, codecVars, seq>>

\* get_from_fstream on any bytes
Streams == SeqsUpTo({OPEN, CLOSE, 0, 255}, MaxStream)

DeserializeRaw ==
    /\ pc = "idle"
    /\ \E b \in Streams, g \in Behind :
        /\ seq' = b
        /\ Rebuild(b, g)
    /\ pc' = "raw_rebuilt"
    /\ UNCHANGED <<counter, heap, tree, emptyFront, code, codecVars>>

Next ==
    \/ BuildFromString
    \/ BuildFromCounter
    \/ DiscardZero
    \/ DiscardDone
    \/ DiscardOnEmpty
    \/ CheckSize
    \/ Merge
    \/ BuildReturn
    \/ GenerateCode
    \/ Encode
    \/ Decode
    \/ DecodeRaw
    \/ Sequence
    \/ Deserialize
    \/ DeserializeRaw

Spec == Init /\ [][Next]_vars

(* ---- properties ---- *)
\* the values of the leaves of t, left to right
RECURSIVE LeafSeq(_)
LeafSeq(t) ==
    IF IsNull(t.left) /\ IsNull(t.right) THEN <<t.value>>
    ELSE (IF IsNull(t.left) THEN <<>> ELSE LeafSeq(t.left))
         \o (IF IsNull(t.right) THEN <<>> ELSE LeafSeq(t.right))

Leaves(t) == {LeafSeq(t)[i] : i \in 1 .. Len(LeafSeq(t))}

\* the number of nodes of t that have a child
RECURSIVE InternalCount(_)
InternalCount(t) ==
    IF IsNull(t.left) /\ IsNull(t.right) THEN 0
    ELSE 1 + (IF IsNull(t.left) THEN 0 ELSE InternalCount(t.left))
           + (IF IsNull(t.right) THEN 0 ELSE InternalCount(t.right))

\* every node of t has no child and a symbol, or two children and EOF
RECURSIVE StrictBinary(_)
StrictBinary(t) ==
    IF IsNull(t.left) /\ IsNull(t.right) THEN t.value \in Symbols
    ELSE /\ ~IsNull(t.left)
         /\ ~IsNull(t.right)
         /\ t.value = EOF
         /\ StrictBinary(t.left)
         /\ StrictBinary(t.right)

NonZero(w) == {c \in Symbols : w[c] > 0}

IsPrefix(a, b) == Len(a) <= Len(b) /\ SubSeq(b, 1, Len(a)) = a

RECURSIVE CodeBits(_, _, _)
CodeBits(cd, s, i) == IF i > Len(s) THEN 0 ELSE Len(cd[s[i]]) + CodeBits(cd, s, i + 1)

HeaderL2 == ReadSizeT(SubSeq(payload, 1, SizeT))
Packed == SubSeq(payload, SizeT + 1, Len(payload))

\* the tree was built from the counts of msg
BuiltFromMsg == CountOf(msg) = counter

\* C1: decoding what encode made of the string the tree was built from gives
\* that string back, whichever nodes of equal weight were merged first
C1_RoundTrip ==
    (pc = "decoded" /\ BuiltFromMsg) => decoded = msg

\* a round trip whose packed bits fill one byte and go on in a second one
C1_Witness ==
    /\ pc = "decoded"
    /\ BuiltFromMsg
    /\ decoded = msg
    /\ Cardinality(NonZero(counter)) >= 2
    /\ HeaderL2 > 8
    /\ HeaderL2 % 8 # 0

\* C2: build_tree(begin, end) on the bytes of sequence() returns a tree whose
\* sequence() is those same bytes, without reading behind them
C2_SequenceRoundTrip ==
    pc = "rebuilt" =>
        /\ error = "none"
        /\ ~past
        /\ ~IsNull(tree2)
        /\ sequence(tree2) = seq

\* a tree of three leaves whose left child is not a leaf came back
C2_Witness ==
    /\ pc = "rebuilt"
    /\ ~IsNull(tree2)
    /\ sequence(tree2) = seq
    /\ Len(LeafSeq(tree)) >= 3
    /\ ~IsNull(tree.left.left)

\* the heap was filled and build_tree(Heap &) has not returned a tree
InBuild == pc \in {"discard", "check", "failed"}

\* C3: with every weight zero build_tree ends with the empty-text error and
\* never evaluates front() of, or pops from, an empty heap
C3_EmptyInputError ==
    (InBuild /\ NonZero(counter) = {}) =>
        /\ ~emptyFront
        /\ (pc = "failed" => error = "empty_text")

\* C4: with exactly one weight not zero build_tree ends with the
\* single-character error and returns no tree
C4_SingleSymbolError ==
    (pc # "idle" /\ Cardinality(NonZero(counter)) = 1) =>
        /\ InBuild
        /\ IsNull(tree)
        /\ ~emptyFront
        /\ (pc = "check" => Len(heap) = 1)
        /\ (pc = "failed" => error = "single_char")

\* the text "zzzz", or any with one symbol at least four times, was refused
C4_Witness ==
    /\ pc = "failed"
    /\ error = "single_char"
    /\ Cardinality(NonZero(counter)) = 1
    /\ \E c \in Symbols : counter[c] >= 4

\* msg holds a symbol that is no leaf of the tree
HasUnknownSymbol == \E i \in 1 .. Len(msg) : msg[i] \notin Leaves(tree)

\* C5: encode of a string with a symbol that is no leaf of the tree fails
\* with an unknown-symbol error and returns no payload
C5_UnknownSymbolError ==
    (pc = "encoded" /\ HasUnknownSymbol) =>
        /\ error = "unknown_symbol"
        /\ payload = <<>>

\* the payload handed to decode holds fewer bits than its header declares
Truncated == 8 * Len(Packed) < HeaderL2

\* bit k (from 1, highest bit of a byte first) of bytes
BitAt(bytes, k) ==
    (bytes[((k - 1) \div 8) + 1] \div (2 ^ (7 - ((k - 1) % 8)))) % 2

\* where the cursor stands after bits k .. n of bytes, starting at t
RECURSIVE CursorAfter(_, _, _, _, _)
CursorAfter(root, bytes, t, k, n) ==
    IF k > n THEN t
    ELSE LET t1 == IF BitAt(bytes, k) = 1 THEN t.right ELSE t.left
         IN  CursorAfter(root, bytes, IF t1.value # EOF THEN root ELSE t1, k + 1, n)

\* the first HeaderL2 bits are there and end below the root
MidCode == /\ ~Truncated
           /\ CursorAfter(tree, Packed, tree, 1, HeaderL2) # tree

\* C6: decode fails with an invalid-format error when the payload is
\* truncated or its declared bits end in the middle of a code
C6_InvalidFormatError ==
    (pc = "raw_decoded" /\ (Truncated \/ MidCode)) => error = "invalid_format"

\* the bytes handed to build_tree(begin, end) do not nest
RECURSIVE CountByte(_, _)
CountByte(b, x) ==
    IF b = <<>> THEN 0 ELSE (IF b[1] = x THEN 1 ELSE 0) + CountByte(Tail(b), x)

Unbalanced(b) == CountByte(b, OPEN) # CountByte(b, CLOSE)

\* C7: build_tree(begin, end) fails with an invalid-format error on bytes
\* whose OPEN and CLOSE do not nest, and never reads at or behind end
C7_InvalidFormatError ==
    (pc = "raw_rebuilt" /\ Unbalanced(seq)) =>
        /\ error = "invalid_format"
        /\ ~past

\* the code table has been generated
HasCode == pc \in {"ready", "encoded", "decoded", "raw_decoded", "sequenced", "rebuilt"}

\* C8: every leaf of the tree has a code that is not empty, and no leaf's
\* code is a prefix of, or equal to, another leaf's
C8_PrefixFree ==
    HasCode =>
        /\ \A a \in Leaves(tree) : code[a] # <<>>
        /\ \A a \in Leaves(tree) : \A b \in Leaves(tree) \ {a} : ~IsPrefix(code[a], code[b])

\* a table with codes of two lengths
C8_Witness ==
    /\ pc = "ready"
    /\ Cardinality(Leaves(tree)) >= 3
    /\ \E a \in Leaves(tree) : \E b \in Leaves(tree) : Len(code[a]) < Len(code[b])

\* C9: the bit length in the header is the sum of the lengths of the codes of
\* the string's symbols, and the bytes behind the header are that many bits
\* rounded up to whole bytes
C9_BitLength ==
    (pc = "encoded" /\ ~HasUnknownSymbol) =>
        /\ HeaderL2 = CodeBits(code, msg, 1)
        /\ Len(Packed) = (HeaderL2 + 7) \div 8

\* a string whose codes fill a byte to the last bit
C9_Witness ==
    /\ pc = "encoded"
    /\ ~HasUnknownSymbol
    /\ HeaderL2 = 8
    /\ Len(Packed) = 1

\* C10: the tree built from N >= 2 weights that are not zero is a strict
\* binary tree with those N symbols as its leaves, each once, and N - 1
\* inner nodes of value EOF
C10_TreeShape ==
    ~IsNull(tree) =>
        /\ Cardinality(NonZero(counter)) >= 2
        /\ StrictBinary(tree)
        /\ Leaves(tree) = NonZero(counter)
        /\ Len(LeafSeq(tree)) = Cardinality(NonZero(counter))
        /\ InternalCount(tree) = Cardinality(NonZero(counter)) - 1

\* a tree built from a table in which some symbol has weight zero
C10_Witness ==
    /\ pc = "built"
    /\ Len(LeafSeq(tree)) >= 2
    /\ Cardinality(NonZero(counter)) < NSym
    /\ StrictBinary(tree)

\* the symbols of the leaves reached by bits k .. n of bytes, starting at t
RECURSIVE EmittedBy(_, _, _, _, _)
EmittedBy(root, bytes, t, k, n) ==
    IF k > n THEN <<>>
    ELSE LET t1 == IF BitAt(bytes, k) = 1 THEN t.right ELSE t.left
         IN  IF t1.value # EOF
             THEN <<t1.value>> \o EmittedBy(root, bytes, root, k + 1, n)
             ELSE EmittedBy(root, bytes, t1, k + 1, n)

\* the bits of the payload that count: the first HeaderL2, or all there are
BitBudget == IF Truncated THEN 8 * Len(Packed) ELSE HeaderL2

\* C11: decode walks only the first l2 bits: no later bit moves the cursor
\* and no symbol is emitted after the l2-th bit
C11_StopsAtL2 ==
    pc \in {"decoded", "raw_decoded"} =>
        /\ walked <= HeaderL2
        /\ decoded = EmittedBy(tree, Packed, tree, 1, BitBudget)

\* the sum of the weights of the nodes of h
RECURSIVE HeapWeight(_)
HeapWeight(h) == IF h = <<>> THEN 0 ELSE h[1].weight + HeapWeight(Tail(h))

\* h2 is h with the nodes at i and j taken out and, at the back, a node of
\* value EOF over them whose weight is the sum of theirs
MergedAt(h, h2, i, j) ==
    /\ Len(h2) = Len(h) - 1
    /\ h2[Len(h2)] = Weighted_Node(MoveNode(h[i]), MoveNode(h[j]),
                                   h[i].weight + h[j].weight)
    /\ \A k \in (1 .. Len(h)) \ {i, j} :
        /\ h[i].weight <= h[k].weight
        /\ h[j].weight <= h[k].weight
        /\ \E m \in 1 .. (Len(h2) - 1) : h2[m] = h[k]
    /\ HeapWeight(h2) = HeapWeight(h)

\* C12: once the zero weights are gone every merge takes out two nodes that
\* weigh no more than any node left, puts back one node weighing their sum,
\* the loop ends with one node, and the root weighs the sum of all weights
C12_MergeLowest ==
    /\ [][(pc = "merge" /\ pc' = "merge") =>
            \E i \in 1 .. Len(heap) : \E j \in (1 .. Len(heap)) \ {i} :
                MergedAt(heap, heap', i, j)]_vars
    /\ [](pc = "merge" =>
            /\ Len(heap) >= 1
            /\ \A k \in 1 .. Len(heap) : heap[k].weight > 0
            /\ HeapWeight(heap) = SumTo(counter, NSym - 1))
    /\ [](pc = "built" =>
            /\ Len(heap) = 1
            /\ heap[1].weight = SumTo(counter, NSym - 1))

\* two merges made a tree of three leaves from weights that are not all equal
C12_Witness ==
    /\ pc = "built"
    /\ Len(LeafSeq(tree)) >= 3
    /\ heap[1].weight = SumTo(counter, NSym - 1)
    /\ \E a \in Symbols : \E b \in Symbols : 0 < counter[a] /\ counter[a] < counter[b]

====
